---- MODULE Spec2Model ----
(***************************************************************************)
(* Session lifecycle and real-time event delivery of the resume analyzer   *)
(* backend: the session store (services/sessionManager), the connection    *)
(* registry (services/sseManager), the event broadcaster                   *)
(* (services/eventBroadcaster) and the SSE routes (routes/sse.js).         *)
(*                                                                         *)
(* The broadcaster and the routes are translated from their source.  The   *)
(* session store and the connection registry are required by that source   *)
(* but their files are not part of the source tree at hand; they are       *)
(* modelled from the specification (sections 3, 4.1 and 4.2) and from the  *)
(* calls and tests that use them.                                          *)
(*                                                                         *)
(* Opaque payload fields that no operation reads back (fileInfo,           *)
(* extractedText, extractionInfo, the createdAt/updatedAt/completedAt      *)
(* stamps) are left out of the session record.                             *)
(***************************************************************************)
EXTENDS Integers, Sequences, FiniteSets, TLC

VARIABLES
    sessions,   \* sessionManager.sessions: Map sessionId -> session record
    now,        \* Date.now(), in ticks
    conns,      \* sseManager.connections: Map sessionId -> set of channels
    broken,     \* channels whose next write fails (socket gone, 'close' not yet handled)
    used,       \* session ids the generator has handed out
    accepted,   \* history: number of retry requests accepted, per session id
    last,       \* history: the last operation, its arguments, its outcome and
                \* the events it wrote
    tasks,      \* the calls of the AI client in flight, and what each has done
    delivered,  \* history: chunks handed to analysisStreaming since the last
                \* completion, per session id
    proc,       \* the process: HTTP server, forced-exit timer, exit status
    uploads     \* the uploads directory: whether it exists, and its entries

vars == <<sessions, now, conns, broken, used, accepted, last,
          tasks, delivered, proc, uploads>>

\* what the session services never touch
host == <<proc, uploads>>

\* what only the analysis calls touch
bg == <<tasks, delivered>>

----------------------------------------------------------------------------
(* Bounds of the model *)

MaxTime == 3          \* the clock stops ticking here
DefaultTTL == 1       \* create: expiresAt = now + DefaultTTL
MaxCallerRetry == 4   \* largest retryCount a caller hands to the broadcaster
MaxStream == 2        \* longest accumulated streamingContent, in chunks
MaxRetryReqs == 4     \* retry requests counted per session in SpecRetry
MaxFragments == 2     \* fragments one model stream produces at most
MaxSignals == 2       \* termination signals the process is sent at most
MaxFileAge == 1       \* fileCleanup: this.maxFileAge, in ticks

(* Program constants *)

MaxRetries == 3       \* routes/sse.js: if (newRetryCount > 3)

----------------------------------------------------------------------------
(* Values *)

Null == "null"            \* JS null / undefined / absent field
Undefined == -1           \* an absent numeric option (options.retryCount)
NullText == <<"null">>    \* streamingContent: null or absent

NoArgs == [none |-> Null]   \* a call whose arguments the record leaves out
NoRet == [none |-> Null]    \* nothing returned, or a result the record leaves out

NullId == "<null>"        \* sessionId null / undefined
EmptyId == ""             \* sessionId ''
NumId == "<123>"          \* sessionId of a non-string type
UnknownId == "zz"         \* a well-formed id of no session

Ids == {"s1", "s2"}                         \* ids the generator produces
StringIds == Ids \cup {UnknownId}           \* ids a URL parameter can carry
AllIds == StringIds \cup {NullId, EmptyId, NumId}

Channels == {"c1", "c2"}
Chunks == {"a"}
Feedbacks == {"fb"}

\* typeof sessionId === 'string'
IsString(id) == id \notin {NullId, NumId}

\* !sessionId is false
Truthy(id) == id \notin {NullId, EmptyId}

\* x || 0
OrZero(x) == IF x = Undefined \/ x = 0 THEN 0 ELSE x

\* text || ''
OrEmpty(t) == IF t = NullText THEN <<>> ELSE t

----------------------------------------------------------------------------
(* Session Store (services/sessionManager) *)

ValidId(id) == Truthy(id) /\ IsString(id)

\* now > expiresAt
IsExpired(s, t) == t > s.expiresAt

\* getSession(sessionId) !== null
Live(store, t, sid) ==
    /\ ValidId(sid)
    /\ sid \in DOMAIN store
    /\ ~IsExpired(store[sid], t)

\* sessionExists(sessionId)
SessionExists(store, t, sid) == Live(store, t, sid)

\* the clock never passes MaxTime: every later expiry is the same "not yet"
Clamp(x) == IF x > MaxTime THEN MaxTime ELSE x

NewSession(sid, t) ==
    [sessionId        |-> sid,
     status           |-> "created",
     retryCount       |-> 0,
     expiresAt        |-> Clamp(t + DefaultTTL),
     feedback         |-> Null,
     streamingContent |-> NullText,
     lastError        |-> Null,
     errorCode        |-> Null]

\* a merge in which the caller's sessionId wins
MergeOverwriting(s, upd) ==
    [f \in DOMAIN s |-> IF f \in DOMAIN upd THEN upd[f] ELSE s[f]]

\* { ...session, ...updates, sessionId: session.sessionId }
Merge(s, upd) ==
    [f \in DOMAIN s |->
        IF f \in DOMAIN upd /\ f # "sessionId" THEN upd[f] ELSE s[f]]

\* an update that creates the session it does not find
UpdateSessionUpsert(store, t, sid, upd) ==
    IF sid \in DOMAIN store
    THEN [store EXCEPT ![sid] = Merge(store[sid], upd)]
    ELSE [k \in (DOMAIN store) \cup {sid} |->
            IF k = sid THEN Merge(NewSession(sid, t), upd) ELSE store[k]]

\* updateSession(sessionId, updates): the store after the call
UpdateSession(store, t, sid, upd) ==
    IF Live(store, t, sid)
    THEN [store EXCEPT ![sid] = Merge(store[sid], upd)]
    ELSE store

\* updateStatus(sessionId, status)
UpdateStatus(store, t, sid, st) == UpdateSession(store, t, sid, [status |-> st])

\* an extend that makes up the session it does not find
ExtendSessionUnchecked(store, t, sid, extra) ==
    [k \in (DOMAIN store) \cup {sid} |->
        IF k = sid
        THEN IF sid \in DOMAIN store
             THEN [store[sid] EXCEPT !.expiresAt = Clamp(@ + extra)]
             ELSE NewSession(sid, t)
        ELSE store[k]]

\* extendSession(sessionId, additionalTime)
ExtendSession(store, t, sid, extra) ==
    IF Live(store, t, sid)
    THEN [store EXCEPT ![sid].expiresAt = Clamp(@ + extra)]
    ELSE store

\* sessions.delete(key)
Remove(store, keys) == [k \in (DOMAIN store) \ keys |-> store[k]]

\* create(initialData): the new session, initialData merged into the defaults
NewSessionFrom(sid, t, initialData) == Merge(NewSession(sid, t), initialData)

\* the places of a session a caller can write to through a snapshot: a field
\* of the snapshot itself, or a field of the object a field refers to
Paths == {"status", "feedback", "feedback.score"}

\* a copy of the top level only: the objects the fields refer to are shared
SharedPathsShallow(s) == IF s.feedback # Null THEN {"feedback.score"} ELSE {}

\* get returns an independent copy: what the snapshot shares with the stored
\* session
SharedPaths(s) == {}

\* the session (or snapshot) after a caller wrote at path
WriteAt(s, path) ==
    IF path = "status" THEN [s EXCEPT !.status = "modified"]
    ELSE IF path = "feedback" THEN [s EXCEPT !.feedback = "replaced"]
    ELSE [s EXCEPT !.feedback = "fb, score modified"]

----------------------------------------------------------------------------
(* Connection Registry (services/sseManager) *)

\* connections.get(sessionId) || empty
ChannelsOf(cn, sid) == IF sid \in DOMAIN cn THEN cn[sid] ELSE {}

Registered(cn) == UNION {cn[k] : k \in DOMAIN cn}

\* getConnectionCount(sessionId)
GetConnectionCount(cn, sid) == Cardinality(ChannelsOf(cn, sid))

\* the registry with the set of sid replaced; an empty set drops the key
WithChannels(cn, sid, set) ==
    [k \in IF set = {} THEN (DOMAIN cn) \ {sid} ELSE (DOMAIN cn) \cup {sid} |->
        IF k = sid THEN set ELSE cn[k]]

\* createConnection(sessionId, res), handshake succeeded
CreateConnection(cn, sid, c) == WithChannels(cn, sid, ChannelsOf(cn, sid) \cup {c})

\* a removal that drops every channel of the session
RemoveConnectionAll(cn, sid, c) == WithChannels(cn, sid, {})

\* removeConnection(sessionId, res)
RemoveConnection(cn, sid, c) == WithChannels(cn, sid, ChannelsOf(cn, sid) \ {c})

\* the wire form of one event: "event: <name>\ndata: <JSON payload>\n\n"
FormatSSE(name, payload) == [event |-> name, data |-> payload]

\* broadcastToSession: the channels whose write fails
FailedOn(cn, br, sid) == ChannelsOf(cn, sid) \cap br

\* a fan-out that gives up at the first failing write
DeliveredToUntilFailure(cn, br, sid) ==
    IF ChannelsOf(cn, sid) \cap br # {} THEN {} ELSE ChannelsOf(cn, sid)

\* broadcastToSession: the channels the message is written to
DeliveredTo(cn, br, sid) == ChannelsOf(cn, sid) \ br

\* broadcastToSession: the registry afterwards, failing channels removed
AfterBroadcast(cn, br, sid) == WithChannels(cn, sid, DeliveredTo(cn, br, sid))

\* what a read of the session shows at a given moment
View(store, t, sid) ==
    IF Live(store, t, sid)
    THEN [live |-> TRUE,
          status |-> store[sid].status,
          retryCount |-> store[sid].retryCount,
          feedback |-> store[sid].feedback,
          streamingContent |-> store[sid].streamingContent]
    ELSE [live |-> FALSE,
          status |-> "absent",
          retryCount |-> Undefined,
          feedback |-> Null,
          streamingContent |-> NullText]

\* broadcastToSession(sessionId, eventName, payload): the writes it performs,
\* each with what a read of the session shows when it is written
BroadcastToSession(cn, br, store, t, sid, name, payload) ==
    {[chan |-> c, msg |-> FormatSSE(name, payload), seen |-> View(store, t, sid)] :
        c \in DeliveredTo(cn, br, sid)}

----------------------------------------------------------------------------
(* Event Broadcaster (services/eventBroadcaster) *)

\* eventData, reduced to the fields a subscriber can compare with the session
Payload(status, content, feedback, retryCount, retryable) ==
    [status |-> status, content |-> content, feedback |-> feedback,
     retryCount |-> retryCount, retryable |-> retryable]

StatusPayload(status) == Payload(status, Null, Null, Undefined, Null)

\* error instanceof Error ? error.message : error
ErrMessage(err) == err.text

\* error.code || options.code || 'UNKNOWN_ERROR'
ErrCode(err, opts) ==
    IF err.code # Null THEN err.code
    ELSE IF opts.code # Null THEN opts.code
    ELSE "UNKNOWN_ERROR"

\* options.retryable !== false
Retryable(opts) == IF opts.retryable = "false" THEN "false" ELSE "true"

\* one lifecycle method: the store as the method leaves it, and the event
\* written while the store was atWrite
Lifecycle(op, sid, args, final, atWrite, name, payload) ==
    /\ sessions' = final
    /\ conns' = AfterBroadcast(conns, broken, sid)
    /\ broken' = broken \ FailedOn(conns, broken, sid)
    /\ last' = [op |-> op, sid |-> sid, args |-> args, ret |-> NoRet,
                code |-> "returned", chan |-> Null,
                sent |-> BroadcastToSession(conns, broken, atWrite, now, sid, name, payload),
                failed |-> FailedOn(conns, broken, sid)]
    /\ UNCHANGED <<now, used, accepted, host>>

\* an uploadStarted that only a freshly created session accepts
UploadStartedStoreInOrder(store, t, sid) ==
    IF Live(store, t, sid) /\ store[sid].status = "created"
    THEN UpdateStatus(store, t, sid, "uploading")
    ELSE store

UploadStartedStore(store, t, sid) == UpdateStatus(store, t, sid, "uploading")

BroadcastUploadStarted(sid) ==
    LET s2 == UploadStartedStore(sessions, now, sid)
    IN Lifecycle("uploadStarted", sid, NoArgs, s2, s2, "upload.started", StatusPayload("uploading"))

UploadCompletedStore(store, t, sid) == UpdateStatus(store, t, sid, "uploaded")

BroadcastUploadCompleted(sid) ==
    LET s2 == UploadCompletedStore(sessions, now, sid)
    IN Lifecycle("uploadCompleted", sid, NoArgs, s2, s2, "upload.completed", StatusPayload("uploaded"))

ExtractionStartedStore(store, t, sid) == UpdateStatus(store, t, sid, "extracting")

BroadcastExtractionStarted(sid) ==
    LET s2 == ExtractionStartedStore(sessions, now, sid)
    IN Lifecycle("extractionStarted", sid, NoArgs, s2, s2, "extraction.started", StatusPayload("extracting"))

ExtractionCompletedStore(store, t, sid) == UpdateStatus(store, t, sid, "extracted")

BroadcastExtractionCompleted(sid) ==
    LET s2 == ExtractionCompletedStore(sessions, now, sid)
    IN Lifecycle("extractionCompleted", sid, NoArgs, s2, s2, "extraction.completed", StatusPayload("extracted"))

AnalysisStartedStore(store, t, sid) == UpdateStatus(store, t, sid, "analyzing")

BroadcastAnalysisStarted(sid) ==
    LET s2 == AnalysisStartedStore(sessions, now, sid)
    IN Lifecycle("analysisStarted", sid, NoArgs, s2, s2, "analysis.started", StatusPayload("analyzing"))

\* a streaming update that keeps the last chunk only
AnalysisStreamingStoreOverwrite(store, t, sid, chunk) ==
    UpdateSession(store, t, sid, [streamingContent |-> <<chunk>>])

\* const session = getSession(sessionId); if (session) updateSession(...)
AnalysisStreamingStore(store, t, sid, chunk) ==
    IF Live(store, t, sid)
    THEN UpdateSession(store, t, sid,
            [streamingContent |-> OrEmpty(store[sid].streamingContent) \o <<chunk>>])
    ELSE store

\* the accumulated text the next chunk is appended to
Accumulated(store, t, sid) ==
    IF Live(store, t, sid) THEN OrEmpty(store[sid].streamingContent) ELSE <<>>

BroadcastAnalysisStreaming(sid, chunk) ==
    LET s2 == AnalysisStreamingStore(sessions, now, sid, chunk)
    IN /\ Len(Accumulated(sessions, now, sid)) < MaxStream
       /\ Lifecycle("analysisStreaming", sid, [chunk |-> chunk], s2, s2, "analysis.streaming",
                    Payload("streaming", chunk, Null, Undefined, Null))

AnalysisCompletedStore(store, t, sid, feedback) ==
    UpdateSession(UpdateStatus(store, t, sid, "completed"), t, sid,
                  [feedback |-> feedback, streamingContent |-> NullText])

\* broadcastAnalysisCompleted, the store being what its caller left
BroadcastAnalysisCompletedFrom(store, sid, feedback) ==
    LET s2 == AnalysisCompletedStore(store, now, sid, feedback)
    IN Lifecycle("analysisCompleted", sid, [feedback |-> feedback], s2, s2, "analysis.completed",
                 Payload("completed", Null, feedback, Undefined, Null))

BroadcastAnalysisCompleted(sid, feedback) ==
    BroadcastAnalysisCompletedFrom(sessions, sid, feedback)

ErrorStore(store, t, sid, err, opts) ==
    UpdateSession(UpdateStatus(store, t, sid, "error"), t, sid,
                  [lastError |-> ErrMessage(err),
                   errorCode |-> ErrCode(err, opts),
                   retryCount |-> OrZero(opts.retryCount)])

BroadcastError(sid, err, opts) ==
    LET s2 == ErrorStore(sessions, now, sid, err, opts)
    IN Lifecycle("error", sid, [error |-> err, options |-> opts], s2, s2, "error.occurred",
                 Payload("error", ErrMessage(err), Null, OrZero(opts.retryCount),
                         Retryable(opts)))

RetryStartedStore(store, t, sid, retryCount) ==
    UpdateSession(store, t, sid, [retryCount |-> retryCount, status |-> "retrying"])

BroadcastRetryStarted(sid, retryCount) ==
    LET s2 == RetryStartedStore(sessions, now, sid, retryCount)
    IN Lifecycle("retryStarted", sid, [retryCount |-> retryCount], s2, s2, "retry.started",
                 Payload("retrying", Null, Null, retryCount, Null))

\* broadcastSessionUpdate: the one method that checks the session first
BroadcastSessionUpdate(sid) ==
    /\ last' = [op |-> "sessionUpdate", sid |-> sid, args |-> NoArgs, ret |-> NoRet,
                code |-> "returned", chan |-> Null,
                sent |-> IF Live(sessions, now, sid)
                         THEN BroadcastToSession(conns, broken, sessions, now, sid,
                                  "session.updated", StatusPayload(sessions[sid].status))
                         ELSE {},
                failed |-> IF Live(sessions, now, sid)
                           THEN FailedOn(conns, broken, sid) ELSE {}]
    /\ conns' = IF Live(sessions, now, sid) THEN AfterBroadcast(conns, broken, sid) ELSE conns
    /\ broken' = IF Live(sessions, now, sid) THEN broken \ FailedOn(conns, broken, sid) ELSE broken
    /\ UNCHANGED <<sessions, now, used, accepted, host, bg>>

----------------------------------------------------------------------------
(* SSE routes (routes/sse.js) *)

Respond(op, sid, code) ==
    [op |-> op, sid |-> sid, args |-> NoArgs, ret |-> NoRet,
     code |-> code, chan |-> Null, sent |-> {}, failed |-> {}]

\* res.status(n).json({ error, code }): a response that opens no stream
HttpJson(op, sid, status, code) ==
    [Respond(op, sid, code) EXCEPT !.ret = [status |-> status, stream |-> "none"]]

\* res.flushHeaders() ... res.write('event: error ...'); res.end(): the stream
\* is opened with status 200, carries one error event and is ended
StreamError(op, sid, text) ==
    [Respond(op, sid, text) EXCEPT !.ret = [status |-> 200, stream |-> "ended"]]

\* a snapshot that never replays the result
SnapshotStatusOnly(s) == [event |-> "session.status", data |-> StatusPayload(s.status)]

\* the snapshot a new subscriber is sent:
\* if (session.status === 'completed' && session.feedback) ... else ...
Snapshot(s) ==
    IF s.status = "completed" /\ s.feedback # Null
    THEN [event |-> "analysis.completed",
          data |-> Payload("completed", Null, s.feedback, Undefined, Null)]
    ELSE [event |-> "session.status", data |-> StatusPayload(s.status)]

\* a lookup that consults the map only, expiry ignored
SessionFoundStale(store, t, sid) == sid \in DOMAIN store

\* const session = sessionManager.getSession(sessionId); if (!session) ...
SessionFound(store, t, sid) == Live(store, t, sid)

\* GET /events/:sessionId with response object c; dead: the socket is already
\* closed when the handshake is attempted
Subscribe(sid, c, originOk, dead) ==
    /\ c \notin Registered(conns)
    /\ IF ~originOk THEN
          /\ last' = HttpJson("subscribe", sid, 403, "CORS_NOT_ALLOWED")
          /\ UNCHANGED <<sessions, conns, broken>>
       ELSE IF ~Truthy(sid) \/ ~IsString(sid) THEN
          /\ last' = StreamError("subscribe", sid, "Invalid session ID")
          /\ UNCHANGED <<sessions, conns, broken>>
       ELSE IF ~SessionFound(sessions, now, sid) THEN
          /\ last' = StreamError("subscribe", sid, "Session not found")
          /\ UNCHANGED <<sessions, conns, broken>>
       ELSE IF dead THEN
          /\ last' = StreamError("subscribe", sid, "SSE connection failed")
          /\ UNCHANGED <<sessions, conns, broken>>
       ELSE
          LET cn1 == CreateConnection(conns, sid, c)
              session == sessions[sid]
          IN /\ last' = [op |-> "subscribe", sid |-> sid, args |-> NoArgs,
                         ret |-> [status |-> 200, stream |-> "open"],
                         code |-> "connected", chan |-> c,
                         sent |-> BroadcastToSession(cn1, broken, sessions, now, sid,
                                      Snapshot(session).event, Snapshot(session).data),
                         failed |-> FailedOn(cn1, broken, sid)]
             /\ conns' = AfterBroadcast(cn1, broken, sid)
             /\ broken' = broken \ FailedOn(cn1, broken, sid)
             /\ sessions' = ExtendSession(sessions, now, sid, DefaultTTL)
    /\ UNCHANGED <<now, used, accepted, host, bg>>

\* a status check that also lets a retry in flight be retried
NotInErrorStateLoose(session) == session.status \notin {"error", "retrying"}

\* if (session.status !== 'error')
NotInErrorState(session) == session.status # "error"

\* a ceiling that is one attempt late
MaxRetriesExceededLate(newRetryCount) == newRetryCount > MaxRetries + 1

\* if (newRetryCount > 3)
MaxRetriesExceeded(newRetryCount) == newRetryCount > MaxRetries

\* POST /events/:sessionId/retry
RetryRoute(sid) ==
    /\ IF ~Truthy(sid) \/ ~IsString(sid) THEN
          /\ last' = Respond("retry", sid, "INVALID_SESSION_ID")
          /\ UNCHANGED <<sessions, conns, broken>>
       ELSE IF ~SessionFound(sessions, now, sid) THEN
          /\ last' = Respond("retry", sid, "SESSION_NOT_FOUND")
          /\ UNCHANGED <<sessions, conns, broken>>
       ELSE IF NotInErrorState(sessions[sid]) THEN
          /\ last' = Respond("retry", sid, "INVALID_SESSION_STATE")
          /\ UNCHANGED <<sessions, conns, broken>>
       ELSE IF MaxRetriesExceeded(OrZero(sessions[sid].retryCount) + 1) THEN
          /\ last' = Respond("retry", sid, "MAX_RETRIES_EXCEEDED")
          /\ UNCHANGED <<sessions, conns, broken>>
       ELSE
          LET newRetryCount == OrZero(sessions[sid].retryCount) + 1
              s1 == UpdateSession(sessions, now, sid,
                        [status |-> "retrying", retryCount |-> newRetryCount,
                         lastError |-> Null])
              s2 == RetryStartedStore(s1, now, sid, newRetryCount)
          IN /\ sessions' = s2
             /\ conns' = AfterBroadcast(conns, broken, sid)
             /\ broken' = broken \ FailedOn(conns, broken, sid)
             /\ last' = [op |-> "retry", sid |-> sid, args |-> NoArgs, ret |-> NoRet,
                         code |-> "Retry initiated", chan |-> Null,
                         sent |-> BroadcastToSession(conns, broken, s2, now, sid,
                                      "retry.started",
                                      Payload("retrying", Null, Null, newRetryCount, Null)),
                         failed |-> FailedOn(conns, broken, sid)]
    /\ UNCHANGED <<now, used, host, bg>>

\* DELETE /events/:sessionId: closeSessionConnections
CloseRoute(sid) ==
    /\ conns' = WithChannels(conns, sid, {})
    /\ broken' = broken \ ChannelsOf(conns, sid)
    /\ last' = Respond("close", sid, "SSE connections closed")
    /\ UNCHANGED <<sessions, now, used, accepted, host, bg>>

\* sseManager.removeConnection(sessionId, res), called directly
RegistryRemoveConnection(sid, c) ==
    /\ conns' = RemoveConnection(conns, sid, c)
    /\ broken' = broken \ (ChannelsOf(conns, sid) \cap {c})
    /\ last' = [Respond("removeConnection", sid, "returned") EXCEPT !.chan = c]
    /\ UNCHANGED <<sessions, now, used, accepted, host, bg>>

\* req.on('close'): removeClient(sessionId, res)
ClientDisconnect(sid, c) ==
    /\ c \in ChannelsOf(conns, sid)
    /\ conns' = RemoveConnection(conns, sid, c)
    /\ broken' = broken \ {c}
    /\ last' = [Respond("disconnect", sid, "removed") EXCEPT !.chan = c]
    /\ UNCHANGED <<sessions, now, used, accepted, host, bg>>

----------------------------------------------------------------------------
(* Callers of the session store, the clock and the transport *)

EmptyMap == [k \in {} |-> k]

\* createSession(): a fresh id
CreateSession(sid) ==
    /\ sid \notin used
    /\ used' = used \cup {sid}
    /\ sessions' = [k \in (DOMAIN sessions) \cup {sid} |->
                        IF k = sid THEN NewSession(sid, now) ELSE sessions[k]]
    /\ last' = Respond("create", sid, "created")
    /\ UNCHANGED <<now, conns, broken, accepted, host, bg>>

\* deleteSession(sessionId)
DeleteSession(sid) ==
    /\ sessions' = Remove(sessions, {sid})
    /\ last' = Respond("delete", sid, IF sid \in DOMAIN sessions THEN "true" ELSE "false")
    /\ UNCHANGED <<now, conns, broken, used, accepted, host, bg>>

\* clearAllSessions()
ClearAllSessions ==
    /\ sessions' = EmptyMap
    /\ last' = Respond("clearAll", Null, "cleared")
    /\ UNCHANGED <<now, conns, broken, used, accepted, host, bg>>

\* a sweep that also takes the sessions expiring this very moment
ExpiredKeysInclusive(store, t) == {k \in DOMAIN store : t >= store[k].expiresAt}

ExpiredKeys(store, t) == {k \in DOMAIN store : IsExpired(store[k], t)}

\* cleanupExpiredSessions(), on the cleanup timer
CleanupExpiredSessions ==
    /\ sessions' = Remove(sessions, ExpiredKeys(sessions, now))
    /\ last' = [Respond("cleanup", Null, "swept") EXCEPT
                    !.ret = [count |-> Cardinality(ExpiredKeys(sessions, now))]]
    /\ UNCHANGED <<now, conns, broken, used, accepted, host, bg>>

\* sessionManager.updateStatus(sessionId, status), called directly
StoreUpdateStatus(sid, st) ==
    /\ sessions' = UpdateStatus(sessions, now, sid, st)
    /\ last' = Respond("updateStatus", sid,
                       IF Live(sessions, now, sid) THEN "true" ELSE "false")
    /\ UNCHANGED <<now, conns, broken, used, accepted, host, bg>>

\* createSession(initialData)
CreateSessionFrom(sid, initialData) ==
    /\ sid \notin used
    /\ used' = used \cup {sid}
    /\ sessions' = [k \in (DOMAIN sessions) \cup {sid} |->
                        IF k = sid THEN NewSessionFrom(sid, now, initialData)
                        ELSE sessions[k]]
    /\ last' = [Respond("create", sid, "created") EXCEPT
                    !.args = [initialData |-> initialData]]
    /\ UNCHANGED <<now, conns, broken, accepted, host, bg>>

\* sessionManager.updateSession(sessionId, updates), called directly
StoreUpdateSession(sid, upd) ==
    /\ sessions' = UpdateSession(sessions, now, sid, upd)
    /\ last' = [Respond("update", sid,
                         IF Live(sessions, now, sid) THEN "true" ELSE "false") EXCEPT
                    !.args = [updates |-> upd]]
    /\ UNCHANGED <<now, conns, broken, used, accepted, host, bg>>

\* sessionManager.extendSession(sessionId)
StoreExtendSession(sid) ==
    /\ sessions' = ExtendSession(sessions, now, sid, DefaultTTL)
    /\ last' = Respond("extend", sid,
                        IF Live(sessions, now, sid) THEN "true" ELSE "false")
    /\ UNCHANGED <<now, conns, broken, used, accepted, host, bg>>

\* sessionManager.getSession(sessionId): the caller holds the snapshot
StoreGetSession(sid) ==
    /\ last' = IF Live(sessions, now, sid)
               THEN [Respond("get", sid, "session") EXCEPT
                        !.ret = [snapshot |-> sessions[sid],
                                 shared |-> SharedPaths(sessions[sid])]]
               ELSE Respond("get", sid, "null")
    /\ UNCHANGED <<sessions, now, conns, broken, used, accepted, host, bg>>

\* the caller writes into the snapshot it holds: session.test = 'modified'
MutateSnapshot(path) ==
    /\ last.op \in {"get", "mutate"} /\ last.code = "session"
    /\ path = "feedback.score" => last.ret.snapshot.feedback \in Feedbacks
    /\ last' = [last EXCEPT !.op = "mutate",
                            !.args = [path |-> path],
                            !.ret = [snapshot |-> WriteAt(last.ret.snapshot, path),
                                     shared |-> last.ret.shared]]
    /\ sessions' = IF path \in last.ret.shared /\ last.sid \in DOMAIN sessions
                   THEN [sessions EXCEPT ![last.sid] = WriteAt(@, path)]
                   ELSE sessions
    /\ UNCHANGED <<now, conns, broken, used, accepted, host, bg>>

\* time passes
Tick ==
    /\ now < MaxTime
    /\ now' = now + 1
    /\ last' = Respond("tick", Null, Null)
    /\ UNCHANGED <<sessions, conns, broken, used, accepted, host, bg>>

\* a subscriber's socket dies; its 'close' event is still queued
ChannelBreak(c) ==
    /\ c \in Registered(conns) \ broken
    /\ broken' = broken \cup {c}
    /\ last' = [Respond("break", Null, "broken") EXCEPT !.chan = c]
    /\ UNCHANGED <<sessions, now, conns, used, accepted, host, bg>>

----------------------------------------------------------------------------
(* AI client (services/geminiService) *)

TaskIds == {"t1", "t2"}                \* the calls of the AI client followed
FragmentTexts == {"a", "b"}            \* chunk.text()
OnChunkArgs == {"function", "undefined"}
GeminiMethods == {"analyzeResumeStreaming", "analyzeResumeAdvanced"}

\* getAdvancedFallbackFeedback(), getFallbackFeedback()
FallbackFeedback == "fallback feedback"

\* a call not made yet
IdleTask ==
    [kind     |-> Null,      \* "advanced": performAdvancedAnalysis; else the method called directly
     sid      |-> Null,      \* the session a background analysis works for
     onChunk  |-> Null,      \* the onChunk argument
     phase    |-> "idle",    \* idle, calling, streaming, settled, done
     produced |-> <<>>,      \* the fragments result.stream has yielded
     calls    |-> <<>>,      \* the arguments of the onChunk calls made
     promise  |-> "none",    \* none, pending, fulfilled, rejected
     result   |-> Null,      \* the feedback the promise was fulfilled with
     response |-> 0,         \* status of the HTTP response to the request
     events   |-> <<>>]      \* what the request has caused, in order

\* the call runs up to its first await
StartedTask(kind, sid, onChunk, response, events) ==
    [IdleTask EXCEPT !.kind = kind, !.sid = sid, !.onChunk = onChunk,
                     !.phase = "calling", !.promise = "pending",
                     !.response = response, !.events = events]

\* a loop that calls the callback twice for a fragment
OnChunkCallsTwice(calls, onChunk, chunkText) ==
    IF onChunk = "function" THEN calls \o <<chunkText, chunkText>> ELSE calls

\* if (onChunk && typeof onChunk === 'function') onChunk(chunkText)
OnChunkCalls(calls, onChunk, chunkText) ==
    IF onChunk = "function" THEN Append(calls, chunkText) ELSE calls

\* parseAdvancedResponse, parseResponse: the parsed feedback, or the fallback
\* when the text holds no valid JSON
ParseResponse(valid) == IF valid THEN "fb" ELSE FallbackFeedback

\* catch (error) { throw new Error(`... failed: ${error.message}`) }
Rejected(task) == [task EXCEPT !.phase = "settled", !.promise = "rejected"]

\* return feedback
Fulfilled(task, feedback) ==
    [task EXCEPT !.phase = "settled", !.promise = "fulfilled", !.result = feedback]

\* geminiService.analyzeResumeStreaming(resumeText, onChunk) and
\* geminiService.analyzeResumeAdvanced(resumeText, options, onChunk), called
\* directly
AnalyzeResume(t, method, onChunk) ==
    /\ tasks[t].phase = "idle"
    /\ tasks' = [tasks EXCEPT ![t] = StartedTask(method, Null, onChunk, 0, <<>>)]
    /\ last' = Respond(method, Null, "pending")
    /\ UNCHANGED <<sessions, now, conns, broken, used, accepted, host, delivered>>

\* const result = await this.model.generateContentStream(prompt)
GenerateContentStream(t, ok) ==
    /\ tasks[t].phase = "calling"
    /\ tasks' = [tasks EXCEPT ![t] =
                    IF ok THEN [@ EXCEPT !.phase = "streaming"] ELSE Rejected(@)]
    /\ last' = Respond("generateContentStream", tasks[t].sid,
                        IF ok THEN "resolved" ELSE "rejected")
    /\ UNCHANGED <<sessions, now, conns, broken, used, accepted, host, delivered>>

\* for await (const chunk of result.stream): the stream, or chunk.text(), throws
StreamFails(t) ==
    /\ tasks[t].phase = "streaming"
    /\ tasks' = [tasks EXCEPT ![t] = Rejected(@)]
    /\ last' = Respond("stream", tasks[t].sid, "rejected")
    /\ UNCHANGED <<sessions, now, conns, broken, used, accepted, host, delivered>>

\* the stream is exhausted: parse fullResponse and return the feedback
StreamEnds(t, valid) ==
    /\ tasks[t].phase = "streaming"
    /\ tasks' = [tasks EXCEPT ![t] = Fulfilled(@, ParseResponse(valid))]
    /\ last' = Respond("stream", tasks[t].sid, "resolved")
    /\ UNCHANGED <<sessions, now, conns, broken, used, accepted, host, delivered>>

----------------------------------------------------------------------------
(* Advanced analysis (routes/advanced.js) *)

\* error.message of a failed analysis
AnalysisFailure == [kind |-> "string", text |-> "Advanced analysis failed", code |-> Null]

\* { code: 'ADVANCED_ANALYSIS_FAILED', stage: 'advanced_analysis', retryable: true }
AdvancedErrorOptions ==
    [retryable |-> "true", retryCount |-> Undefined, code |-> "ADVANCED_ANALYSIS_FAILED"]

\* POST /advanced/analyze: the response, then performAdvancedAnalysis up to
\* its await
AdvancedAnalyze(t, sid, hasText, configured) ==
    /\ tasks[t].phase = "idle"
    /\ IF ~Truthy(sid) \/ ~hasText THEN
          /\ last' = HttpJson("advancedAnalyze", sid, 400, "MISSING_PARAMETERS")
          /\ UNCHANGED <<sessions, now, conns, broken, used, accepted, host, bg>>
       ELSE IF ~SessionFound(sessions, now, sid) THEN
          /\ last' = HttpJson("advancedAnalyze", sid, 404, "SESSION_NOT_FOUND")
          /\ UNCHANGED <<sessions, now, conns, broken, used, accepted, host, bg>>
       ELSE IF ~configured THEN
          /\ last' = HttpJson("advancedAnalyze", sid, 500, "ADVANCED_ANALYSIS_ERROR")
          /\ UNCHANGED <<sessions, now, conns, broken, used, accepted, host, bg>>
       ELSE
          /\ BroadcastAnalysisStarted(sid)
          /\ tasks' = [tasks EXCEPT ![t] =
                          StartedTask("advanced", sid, "function", 200,
                                      <<"response", "analysis.started">>)]
          /\ UNCHANGED delivered

\* one turn of the for await loop: chunkText = chunk.text(); onChunk(chunkText),
\* which for a background analysis is broadcastAnalysisStreaming(sessionId, chunk)
StreamFragment(t, chunk) ==
    /\ tasks[t].phase = "streaming"
    /\ Len(tasks[t].produced) < MaxFragments
    /\ tasks' = [tasks EXCEPT ![t] =
                    [@ EXCEPT !.produced = Append(@, chunk),
                              !.calls = OnChunkCalls(@, tasks[t].onChunk, chunk),
                              !.events = IF tasks[t].kind = "advanced"
                                         THEN Append(@, "analysis.streaming") ELSE @]]
    /\ IF tasks[t].kind = "advanced" THEN
          /\ BroadcastAnalysisStreaming(tasks[t].sid, chunk)
          /\ delivered' = IF Live(sessions, now, tasks[t].sid)
                          THEN [delivered EXCEPT ![tasks[t].sid] = Append(@, chunk)]
                          ELSE delivered
       ELSE
          /\ last' = [Respond("onChunk", Null, "returned") EXCEPT
                          !.args = [chunk |-> chunk]]
          /\ UNCHANGED <<sessions, now, conns, broken, used, accepted, host, delivered>>

\* a try block whose last call throws after its event was written
ResumeEventsBoth(promise) ==
    IF promise = "fulfilled" THEN <<"analysis.completed", "error.occurred">>
    ELSE <<"error.occurred">>

\* the events performAdvancedAnalysis emits once the AI call has settled
ResumeEvents(promise) ==
    IF promise = "fulfilled" THEN <<"analysis.completed">> ELSE <<"error.occurred">>

\* performAdvancedAnalysis resumes after its await: updateSession and
\* broadcastAnalysisCompleted, or the catch block's broadcastError
PerformAdvancedAnalysisResumes(t) ==
    /\ tasks[t].kind = "advanced"
    /\ tasks[t].phase = "settled"
    /\ IF tasks[t].promise = "fulfilled" THEN
          /\ BroadcastAnalysisCompletedFrom(
                 UpdateSession(sessions, now, tasks[t].sid,
                               [status |-> "completed", feedback |-> tasks[t].result]),
                 tasks[t].sid, tasks[t].result)
          /\ tasks' = [tasks EXCEPT ![t] =
                          [@ EXCEPT !.phase = "done",
                                    !.events = @ \o ResumeEvents(tasks[t].promise)]]
          /\ delivered' = IF Live(sessions, now, tasks[t].sid)
                          THEN [delivered EXCEPT ![tasks[t].sid] = <<>>]
                          ELSE delivered
       ELSE
          /\ BroadcastError(tasks[t].sid, AnalysisFailure, AdvancedErrorOptions)
          /\ tasks' = [tasks EXCEPT ![t] =
                          [@ EXCEPT !.phase = "done",
                                    !.events = @ \o ResumeEvents(tasks[t].promise)]]
          /\ UNCHANGED delivered

----------------------------------------------------------------------------
(* Process (index.js) *)

Signals == {"SIGINT", "SIGTERM", "uncaughtException", "unhandledRejection"}

\* the process after app.listen
RunningProcess ==
    [server |-> "listening",   \* listening, closing, closed
     timer  |-> "unset",       \* the forced-exit timer: unset, armed
     exit   |-> "running",     \* running, exit(0), exit(1)
     calls  |-> <<>>,          \* the calls gracefulShutdown has made, in order
     closed |-> 0]             \* channels the registry's shutdown has closed

Running == proc.exit = "running"

\* a shutdown that leaves the channels as they are
ShutdownKeepsChannels(cn) == cn

\* sseManager.shutdown(): every channel of every session is closed, the
\* registry is left empty
Shutdown(cn) == EmptyMap

\* sseManager.shutdown(); server.close(...); setTimeout(..., 10000)
GracefulShutdownCalls == <<"sseManager.shutdown", "server.close", "setTimeout">>

\* gracefulShutdown(signal)
GracefulShutdown(signal) ==
    /\ Running
    /\ Len(proc.calls) < MaxSignals * Len(GracefulShutdownCalls)
    /\ conns' = Shutdown(conns)
    /\ broken' = broken \cap Registered(Shutdown(conns))
    /\ proc' = [proc EXCEPT !.server = IF @ = "listening" THEN "closing" ELSE @,
                            !.timer = "armed",
                            !.calls = @ \o GracefulShutdownCalls,
                            !.closed = @ + Cardinality(Registered(conns))]
    /\ last' = Respond("shutdown", Null, signal)
    /\ UNCHANGED <<sessions, now, used, accepted, uploads, bg>>

\* the callback of server.close: every HTTP connection has ended
ServerCloseCallback ==
    /\ Running
    /\ proc.server = "closing"
    /\ proc' = [proc EXCEPT !.server = "closed", !.exit = "exit(0)"]
    /\ last' = Respond("exit", Null, "exit(0)")
    /\ UNCHANGED <<sessions, now, conns, broken, used, accepted, uploads, bg>>

\* the forced-exit timer fires
ForcedExit ==
    /\ Running
    /\ proc.timer = "armed"
    /\ proc' = [proc EXCEPT !.exit = "exit(1)"]
    /\ last' = Respond("exit", Null, "exit(1)")
    /\ UNCHANGED <<sessions, now, conns, broken, used, accepted, uploads, bg>>

----------------------------------------------------------------------------
(* File cleanup (services/fileCleanup) *)

\* file names, first character first
FileNames == {<<".", "gitkeep">>, <<"r", "1.pdf">>, <<"r", "2.pdf">>}

\* file.startsWith('.')
StartsWithDot(file) == Head(file) = "."

\* now - stats.mtime.getTime()
FileAge(t, f) == t - f.mtime

\* fileAge > this.maxFileAge
TooOld(t, f) == FileAge(t, f) > MaxFileAge

\* the entries cleanupOldFiles calls deleteFile for
OldFiles(dir, t) ==
    {n \in DOMAIN dir.files : ~StartsWithDot(n) /\ TooOld(t, dir.files[n])}

\* deleteFile(filePath): true when the file existed and unlinkSync did not throw
DeleteFileResult(dir, n) == n \in DOMAIN dir.files /\ ~dir.files[n].locked

\* the directory after the named files were handed to deleteFile
AfterDeleteFiles(dir, names) ==
    [dir EXCEPT !.files = [n \in {m \in DOMAIN @ : ~(m \in names /\ DeleteFileResult(dir, m))}
                              |-> @[n]]]

\* cleanupOldFiles(): deletedCount++ follows every deleteFile call
CleanupOldFilesCount(dir, t) ==
    IF dir.exists THEN Cardinality(OldFiles(dir, t)) ELSE 0

CleanupOldFiles ==
    /\ uploads' = IF uploads.exists
                  THEN AfterDeleteFiles(uploads, OldFiles(uploads, now))
                  ELSE uploads
    /\ last' = [Respond("cleanupOldFiles", Null, "returned") EXCEPT
                    !.ret = [count |-> CleanupOldFilesCount(uploads, now)]]
    /\ UNCHANGED <<sessions, now, conns, broken, used, accepted, proc, bg>>

\* deleteFile(filePath), called directly
DeleteFile(n) ==
    /\ uploads' = AfterDeleteFiles(uploads, {n})
    /\ last' = Respond("deleteFile", Null,
                        IF DeleteFileResult(uploads, n) THEN "true" ELSE "false")
    /\ UNCHANGED <<sessions, now, conns, broken, used, accepted, proc, bg>>

\* an upload, or a file put there by hand, is written to the directory
WriteFile(n) ==
    /\ uploads.exists
    /\ uploads' = [uploads EXCEPT !.files =
                      [m \in (DOMAIN @) \cup {n} |->
                          IF m = n THEN [mtime |-> now, locked |-> FALSE] ELSE @[m]]]
    /\ last' = Respond("writeFile", Null, "written")
    /\ UNCHANGED <<sessions, now, conns, broken, used, accepted, proc, bg>>

\* fs.utimesSync(file, t, t)
Utimes(n, t) ==
    /\ n \in DOMAIN uploads.files
    /\ uploads' = [uploads EXCEPT !.files[n].mtime = t]
    /\ last' = Respond("utimes", Null, "set")
    /\ UNCHANGED <<sessions, now, conns, broken, used, accepted, proc, bg>>

\* the entry becomes one unlinkSync throws for (in use, not permitted, a
\* directory)
LockFile(n) ==
    /\ n \in DOMAIN uploads.files
    /\ ~uploads.files[n].locked
    /\ uploads' = [uploads EXCEPT !.files[n].locked = TRUE]
    /\ last' = Respond("lock", Null, "locked")
    /\ UNCHANGED <<sessions, now, conns, broken, used, accepted, proc, bg>>

\* the uploads directory is removed, or made again
SetUploadsDir(exists) ==
    /\ uploads.exists # exists
    /\ uploads' = [exists |-> exists, files |-> EmptyMap]
    /\ last' = Respond("uploadsDir", Null, IF exists THEN "made" ELSE "removed")
    /\ UNCHANGED <<sessions, now, conns, broken, used, accepted, proc, bg>>

----------------------------------------------------------------------------
(* Specification *)

Init ==
    /\ sessions = EmptyMap
    /\ now = 0
    /\ conns = EmptyMap
    /\ broken = {}
    /\ used = {}
    /\ accepted = [i \in Ids |-> 0]
    /\ last = Respond("init", Null, Null)
    /\ tasks = [t \in TaskIds |-> IdleTask]
    /\ delivered = [i \in Ids |-> <<>>]
    /\ proc = RunningProcess
    /\ uploads = [exists |-> TRUE, files |-> EmptyMap]

StringError == [kind |-> "string", text |-> "boom", code |-> Null]
NoOptions == [retryable |-> Null, retryCount |-> Undefined, code |-> Null]

\* options.retryCount as callers supply it, absent included
CallerOptions ==
    {[NoOptions EXCEPT !.retryCount = n] : n \in {Undefined} \cup 0..MaxCallerRetry}

\* the retry endpoint, with the accepted requests counted
RetryRequest(sid) ==
    /\ sid \in Ids => accepted[sid] < MaxRetryReqs
    /\ RetryRoute(sid)
    /\ accepted' = IF last'.code = "Retry initiated"
                   THEN [accepted EXCEPT ![sid] = @ + 1]
                   ELSE accepted

----------------------------------------------------------------------------
(* SpecRetry: one session failing and being retried; the clock stands still *)

RetryIds == {"s1", UnknownId}

NextRetry ==
    \/ CreateSession("s1")
    \/ \E sid \in RetryIds : RetryRequest(sid)
    \/ \E sid \in RetryIds : StoreUpdateStatus(sid, "error")
    \/ \E sid \in RetryIds, opts \in CallerOptions : BroadcastError(sid, StringError, opts) /\ UNCHANGED bg
    \/ \E sid \in RetryIds, n \in 0..MaxCallerRetry : BroadcastRetryStarted(sid, n) /\ UNCHANGED bg
    \/ \E sid \in RetryIds : BroadcastAnalysisStarted(sid) /\ UNCHANGED bg
    \/ \E sid \in RetryIds, fb \in Feedbacks : BroadcastAnalysisCompleted(sid, fb) /\ UNCHANGED bg
    \/ \E sid \in RetryIds : Subscribe(sid, "c1", TRUE, FALSE)
    \/ \E sid \in RetryIds : ClientDisconnect(sid, "c1")

SpecRetry == Init /\ [][NextRetry]_vars

----------------------------------------------------------------------------
(* Spec: one session through its whole lifecycle, with two subscribers, the   *)
(* clock and the expiry sweep                                                 *)

LiveIds == {"s1", UnknownId}

\* the lifecycle methods of the broadcaster, called for any id of S
LifecycleCalls(S) ==
    \/ \E sid \in S : BroadcastUploadStarted(sid) /\ UNCHANGED bg
    \/ \E sid \in S : BroadcastUploadCompleted(sid) /\ UNCHANGED bg
    \/ \E sid \in S : BroadcastExtractionStarted(sid) /\ UNCHANGED bg
    \/ \E sid \in S : BroadcastExtractionCompleted(sid) /\ UNCHANGED bg
    \/ \E sid \in S : BroadcastAnalysisStarted(sid) /\ UNCHANGED bg
    \/ \E sid \in S, chunk \in Chunks : BroadcastAnalysisStreaming(sid, chunk) /\ UNCHANGED bg
    \/ \E sid \in S, fb \in Feedbacks : BroadcastAnalysisCompleted(sid, fb) /\ UNCHANGED bg
    \/ \E sid \in S : BroadcastError(sid, StringError, NoOptions) /\ UNCHANGED bg
    \/ \E sid \in S : BroadcastRetryStarted(sid, 1) /\ UNCHANGED bg

Next ==
    \/ CreateSession("s1")
    \/ \E sid \in LiveIds : DeleteSession(sid)
    \/ ClearAllSessions
    \/ CleanupExpiredSessions
    \/ \E sid \in LiveIds : StoreUpdateStatus(sid, "completed")
    \/ Tick
    \/ \E c \in Channels : ChannelBreak(c)
    \/ LifecycleCalls(LiveIds)
    \/ \E sid \in LiveIds : BroadcastSessionUpdate(sid)
    \/ \E sid \in LiveIds, c \in Channels, dead \in BOOLEAN : Subscribe(sid, c, TRUE, dead)
    \/ \E sid \in LiveIds : RetryRoute(sid) /\ UNCHANGED accepted
    \/ \E sid \in LiveIds : CloseRoute(sid)
    \/ \E sid \in LiveIds, c \in Channels : ClientDisconnect(sid, c)

Spec == Init /\ [][Next]_vars

----------------------------------------------------------------------------
(* SpecInvalidId: the broadcaster called with ids of every shape *)

NextInvalidId ==
    \/ CreateSession("s1")
    \/ DeleteSession("s1")
    \/ LifecycleCalls(AllIds)
    \/ \E c \in Channels : Subscribe("s1", c, TRUE, FALSE)

SpecInvalidId == Init /\ [][NextInvalidId]_vars

----------------------------------------------------------------------------
(* SpecFanout: one session with up to three subscribers whose sockets die *)

FanoutChannels == {"c1", "c2", "c3"}

NextFanout ==
    \/ CreateSession("s1")
    \/ \E c \in FanoutChannels : Subscribe("s1", c, TRUE, FALSE)
    \/ \E c \in FanoutChannels : ChannelBreak(c)
    \/ \E c \in FanoutChannels : ClientDisconnect("s1", c)
    \/ BroadcastAnalysisStarted("s1") /\ UNCHANGED bg
    \/ \E chunk \in Chunks : BroadcastAnalysisStreaming("s1", chunk) /\ UNCHANGED bg
    \/ \E fb \in Feedbacks : BroadcastAnalysisCompleted("s1", fb) /\ UNCHANGED bg
    \/ CloseRoute("s1")

SpecFanout == Init /\ [][NextFanout]_vars

----------------------------------------------------------------------------
(* SpecStream: one analysis streamed in chunks of two kinds to its subscribers *)

StreamChunks == {"a", "b"}

NextStream ==
    \/ CreateSession("s1")
    \/ \E c \in Channels : Subscribe("s1", c, TRUE, FALSE)
    \/ \E c \in Channels : ClientDisconnect("s1", c)
    \/ BroadcastAnalysisStarted("s1") /\ UNCHANGED bg
    \/ \E chunk \in StreamChunks : BroadcastAnalysisStreaming("s1", chunk) /\ UNCHANGED bg
    \/ \E fb \in Feedbacks : BroadcastAnalysisCompleted("s1", fb) /\ UNCHANGED bg
    \/ BroadcastError("s1", StringError, NoOptions) /\ UNCHANGED bg

SpecStream == Init /\ [][NextStream]_vars

----------------------------------------------------------------------------
(* SpecError: failures of every shape reported for one session *)

ErrorObject == [kind |-> "Error", text |-> "boom", code |-> Null]
CodedError == [kind |-> "Error", text |-> "boom", code |-> "TEST_ERROR"]
Errors == {StringError, ErrorObject, CodedError}

\* options = { retryable, retryCount, code }, each given or not
ErrorOptions ==
    [retryable : {Null, "true", "false"},
     retryCount : {Undefined, 0, 2},
     code : {Null, "ADVANCED_ANALYSIS_FAILED"}]

NextError ==
    \/ CreateSession("s1")
    \/ Subscribe("s1", "c1", TRUE, FALSE)
    \/ BroadcastAnalysisStarted("s1") /\ UNCHANGED bg
    \/ \E err \in Errors, opts \in ErrorOptions : BroadcastError("s1", err, opts) /\ UNCHANGED bg
    \/ \E n \in 1..2 : BroadcastRetryStarted("s1", n) /\ UNCHANGED bg

SpecError == Init /\ [][NextError]_vars

----------------------------------------------------------------------------
(* SpecStore: the session store alone, two sessions, ids of every shape *)

\* createSession({ sessionId: ... }), createSession({ feedback: ... })
InitialData == {[sessionId |-> UnknownId], [feedback |-> "fb"]}

\* updateSession(id, { sessionId: 'different-id' }), updateSession(id, { feedback })
Updates == {[sessionId |-> UnknownId], [feedback |-> "fb"]}

NextStore ==
    \/ \E sid \in Ids, data \in InitialData : CreateSessionFrom(sid, data)
    \/ \E sid \in AllIds, upd \in Updates : StoreUpdateSession(sid, upd)
    \/ \E sid \in AllIds : StoreUpdateStatus(sid, "processing")
    \/ \E sid \in AllIds : StoreExtendSession(sid)
    \/ \E sid \in AllIds : DeleteSession(sid)
    \/ \E sid \in AllIds : StoreGetSession(sid)
    \/ \E path \in Paths : MutateSnapshot(path)
    \/ CleanupExpiredSessions
    \/ Tick

SpecStore == Init /\ [][NextStore]_vars

----------------------------------------------------------------------------
(* SpecRegistry: two sessions whose subscribers come and go *)

NextRegistry ==
    \/ \E sid \in Ids : CreateSession(sid)
    \/ \E sid \in Ids, c \in FanoutChannels : Subscribe(sid, c, TRUE, FALSE)
    \/ \E sid \in Ids, c \in FanoutChannels : ClientDisconnect(sid, c)
    \/ \E sid \in Ids, c \in FanoutChannels : RegistryRemoveConnection(sid, c)
    \/ \E sid \in Ids : CloseRoute(sid)
    \/ \E sid \in Ids : DeleteSession(sid)

SpecRegistry == Init /\ [][NextRegistry]_vars

----------------------------------------------------------------------------
(* Retry ceiling and retry precondition *)

\* C1: over any sequence of failures and retry requests at most three retry
\* requests are accepted for one session; a request made once three were
\* accepted, with the session in error, is rejected with MAX_RETRIES_EXCEEDED
\* and leaves the session in error with retryCount 3.
C1_AtMostThreeRetriesAccepted ==
    /\ [](\A sid \in Ids : accepted[sid] <= MaxRetries)
    /\ [][\A sid \in Ids :
            (/\ accepted[sid] = MaxRetries
             /\ last'.op = "retry" /\ last'.sid = sid
             /\ Live(sessions, now, sid) /\ sessions[sid].status = "error")
            => (/\ last'.code = "MAX_RETRIES_EXCEEDED"
                /\ sessions'[sid].status = "error"
                /\ sessions'[sid].retryCount = MaxRetries)]_vars

\* C2: every stored session has 0 <= retryCount <= 3.
C2_RetryCountWithinCeiling ==
    \A sid \in DOMAIN sessions :
        /\ 0 <= sessions[sid].retryCount
        /\ sessions[sid].retryCount <= MaxRetries

\* C3: a retry request against a session in error with retryCount 3 is
\* rejected with MAX_RETRIES_EXCEEDED; the session (retryCount 3, status error)
\* is as before and no event is written.
C3_CeilingRejectsRetry ==
    [][\A sid \in StringIds :
        (/\ last'.op = "retry" /\ last'.sid = sid
         /\ Live(sessions, now, sid)
         /\ sessions[sid].status = "error"
         /\ sessions[sid].retryCount = MaxRetries)
        => (/\ last'.code = "MAX_RETRIES_EXCEEDED"
            /\ last'.sent = {}
            /\ sessions' = sessions
            /\ conns' = conns)]_vars

\* a rejected 4th retry, with a subscriber listening
W_C3_RejectedAtCeiling ==
    /\ last.op = "retry" /\ last.code = "MAX_RETRIES_EXCEEDED"
    /\ ChannelsOf(conns, last.sid) # {}
    /\ sessions[last.sid].status = "error"
    /\ sessions[last.sid].retryCount = MaxRetries

\* C4: a retry request against an existing session whose status is not error
\* is rejected with INVALID_SESSION_STATE, leaves the session unchanged and
\* writes no event.
C4_RetryNeedsErrorState ==
    [][\A sid \in StringIds :
        (/\ last'.op = "retry" /\ last'.sid = sid
         /\ Live(sessions, now, sid)
         /\ sessions[sid].status # "error")
        => (/\ last'.code = "INVALID_SESSION_STATE"
            /\ last'.sent = {}
            /\ sessions' = sessions
            /\ conns' = conns)]_vars

\* a retry rejected for a session that is being retried, with a subscriber
W_C4_RejectedOutsideError ==
    /\ last.op = "retry" /\ last.code = "INVALID_SESSION_STATE"
    /\ ChannelsOf(conns, last.sid) # {}
    /\ sessions[last.sid].status = "retrying"
    /\ sessions[last.sid].retryCount > 0

----------------------------------------------------------------------------
(* Store before broadcast, fan-out, snapshot replay *)

LifecycleOps ==
    {"uploadStarted", "uploadCompleted", "extractionStarted", "extractionCompleted",
     "analysisStarted", "analysisStreaming", "analysisCompleted", "error",
     "retryStarted"}

\* the text ends with the chunk
EndsWith(text, chunk) == Len(text) > 0 /\ text[Len(text)] = chunk

\* what one written event announces is what a read of the session showed
\* when it was written
ShowsAnnounced(d) ==
    /\ d.seen.live
    /\ d.seen.status = d.msg.data.status
    /\ d.msg.data.feedback # Null => d.seen.feedback = d.msg.data.feedback
    /\ d.msg.data.retryCount # Undefined => d.seen.retryCount = d.msg.data.retryCount
    /\ d.msg.event = "analysis.streaming"
          => EndsWith(OrEmpty(d.seen.streamingContent), d.msg.data.content)

\* C5: whenever a lifecycle method (or the retry endpoint through it) writes
\* an event to a subscriber, a read of the session at that moment shows the
\* status and the fields the event announces.
C5_StoreShowsWhatEventAnnounces ==
    last.op \in LifecycleOps \cup {"retry"} => \A d \in last.sent : ShowsAnnounced(d)

\* C6: broadcastToSession on a session with N registered channels, any subset
\* of which fail on write, writes one and the same message to every
\* non-failing channel, removes exactly the failing channels and keeps the
\* others registered.
C6_FanOutSurvivesFailures ==
    [][last'.op \in LifecycleOps =>
        LET sid == last'.sid
            reg == ChannelsOf(conns, sid)
            fail == reg \cap broken
        IN /\ {d.chan : d \in last'.sent} = reg \ fail
           /\ \A d1, d2 \in last'.sent : d1.msg = d2.msg
           /\ ChannelsOf(conns', sid) = reg \ fail
           /\ last'.failed = fail]_vars

\* three subscribers, one failing write: two deliveries, two channels left
W_C6_OneOfThreeFailed ==
    /\ last.op \in LifecycleOps
    /\ Cardinality(last.failed) = 1
    /\ Cardinality(last.sent) = 2
    /\ GetConnectionCount(conns, last.sid) = 2

\* the snapshot written to the channel a subscription opened
SnapshotOf(l) == {d \in l.sent : d.chan = l.chan}

\* C7 (as claimed): the subscription itself writes a snapshot to the new
\* channel: analysis.completed with the stored feedback when the status is
\* completed, otherwise a status event with the current status.
C7_SnapshotByStatusAlone ==
    (last.op = "subscribe" /\ last.code = "connected") =>
        /\ SnapshotOf(last) # {}
        /\ \A d \in SnapshotOf(last) :
            IF d.seen.status = "completed"
            THEN /\ d.msg.event = "analysis.completed"
                 /\ d.msg.data.feedback = d.seen.feedback
            ELSE /\ d.msg.event = "session.status"
                 /\ d.msg.data.status = d.seen.status

\* C7 (amended): analysis.completed with the stored feedback when the status
\* is completed and feedback is stored; in every other case, a completed
\* session without feedback included, a status event with the current status.
C7_SnapshotOnSubscribe ==
    (last.op = "subscribe" /\ last.code = "connected") =>
        /\ SnapshotOf(last) # {}
        /\ \A d \in SnapshotOf(last) :
            /\ d.seen.live
            /\ IF d.seen.status = "completed" /\ d.seen.feedback # Null
               THEN /\ d.msg.event = "analysis.completed"
                    /\ d.msg.data.status = "completed"
                    /\ d.msg.data.feedback = d.seen.feedback
               ELSE /\ d.msg.event = "session.status"
                    /\ d.msg.data.status = d.seen.status

\* a late subscriber to a completed session is sent the result
W_C7_ReplayedResult ==
    /\ last.op = "subscribe" /\ last.code = "connected"
    /\ \E d \in SnapshotOf(last) :
          /\ d.msg.event = "analysis.completed"
          /\ d.msg.data.feedback \in Feedbacks

----------------------------------------------------------------------------
(* Expiry and invalid ids *)

\* stored, and past its expiresAt
StoredExpired(sid) == sid \in DOMAIN sessions /\ IsExpired(sessions[sid], now)

\* C8: a session whose expiresAt lies in the past, swept or not, is absent for
\* get and exists, and a subscription to it registers no connection and is
\* answered as one to an id that was never created.
C8_ExpiredIsAbsent ==
    /\ [](\A sid \in StringIds :
            StoredExpired(sid) =>
                ~Live(sessions, now, sid) /\ ~SessionExists(sessions, now, sid))
    /\ [][\A sid \in StringIds :
            (StoredExpired(sid) /\ last'.op = "subscribe" /\ last'.sid = sid)
            => (/\ last' = StreamError("subscribe", sid, "Session not found")
                /\ last'.sent = {}
                /\ conns' = conns
                /\ sessions' = sessions)]_vars

\* a subscription refused for a session that is still in the map
W_C8_SubscribeToExpired ==
    /\ last.op = "subscribe" /\ last.code = "Session not found"
    /\ StoredExpired(last.sid)

\* C9: a lifecycle method called with a null, empty, non-string or unknown
\* sessionId returns without throwing, creates no session and changes none.
C9_InvalidIdIsHarmless ==
    [][(/\ last'.op \in LifecycleOps
        /\ ~ValidId(last'.sid) \/ last'.sid \notin DOMAIN sessions)
       => (/\ last'.code = "returned"
           /\ sessions' = sessions)]_vars

\* every kind of bad id has been passed while a session was stored
W_C9_NullIdWithSessionStored ==
    /\ last.op = "error" /\ last.sid = NullId
    /\ "s1" \in DOMAIN sessions
    /\ sessions["s1"].status # "created"

\* C10: a lifecycle broadcast for a session that is absent or expired mutates
\* no session and delivers no event to any channel.
C10_BroadcastToAbsentIsNoOp ==
    [][(last'.op \in LifecycleOps /\ ~Live(sessions, now, last'.sid))
       => (sessions' = sessions /\ last'.sent = {})]_vars

----------------------------------------------------------------------------
(* The broadcaster's methods one by one *)

\* C11: analysisStreaming(sessionId, chunk) on an existing session leaves the
\* status as it was, stores the previous streamingContent (empty if absent)
\* followed by the chunk, and writes to every subscriber an event that carries
\* the chunk alone; chunk after chunk the stored text is their concatenation
\* in call order.
C11_StreamingAppendsChunk ==
    [][(last'.op = "analysisStreaming" /\ Live(sessions, now, last'.sid)) =>
        LET sid == last'.sid
            chunk == last'.args.chunk
        IN /\ Live(sessions', now', sid)
           /\ sessions'[sid].status = sessions[sid].status
           /\ sessions'[sid].streamingContent =
                  OrEmpty(sessions[sid].streamingContent) \o <<chunk>>
           /\ {d.chan : d \in last'.sent} = ChannelsOf(conns, sid) \ broken
           /\ \A d \in last'.sent :
                  /\ d.msg.event = "analysis.streaming"
                  /\ d.msg.data.content = chunk]_vars

\* chunk "b" streamed after chunk "a" to a subscriber of a session under
\* analysis: "a" then "b" is stored, "b" alone was sent
W_C11_SecondChunkAppended ==
    /\ last.op = "analysisStreaming" /\ last.args.chunk = "b"
    /\ last.sent # {}
    /\ Live(sessions, now, last.sid)
    /\ sessions[last.sid].status = "analyzing"
    /\ sessions[last.sid].streamingContent = <<"a", "b">>

\* the status each status-changing method stands for
DesignatedStatus ==
    [uploadStarted |-> "uploading", uploadCompleted |-> "uploaded",
     extractionStarted |-> "extracting", extractionCompleted |-> "extracted",
     analysisStarted |-> "analyzing", analysisCompleted |-> "completed",
     error |-> "error", retryStarted |-> "retrying"]

\* C12: each status-changing broadcaster method applied to an existing
\* session returns and leaves the session in the status of its event,
\* whatever the status was before; no call is refused for coming out of order.
C12_StatusIsTheEventsOwn ==
    [][(last'.op \in DOMAIN DesignatedStatus /\ Live(sessions, now, last'.sid)) =>
        /\ last'.code = "returned"
        /\ Live(sessions', now', last'.sid)
        /\ sessions'[last'.sid].status = DesignatedStatus[last'.op]]_vars

\* uploadStarted called on a session that was already retried and completed
W_C12_UploadAfterCompletion ==
    /\ last.op = "uploadStarted"
    /\ Live(sessions, now, last.sid)
    /\ sessions[last.sid].status = "uploading"
    /\ sessions[last.sid].feedback # Null
    /\ sessions[last.sid].retryCount > 0

\* C13: error(sessionId, error, options) on an existing session stores status
\* error, the error's message as lastError, as errorCode error.code if present,
\* else options.code, else UNKNOWN_ERROR, and options.retryCount as retryCount
\* (a count the caller did not pass changes none); the event marks the error
\* retryable unless options.retryable is false.
C13_ErrorStoresWhatItIsGiven ==
    [][(last'.op = "error" /\ Live(sessions, now, last'.sid)) =>
        LET sid == last'.sid
            err == last'.args.error
            opts == last'.args.options
        IN /\ sessions'[sid].status = "error"
           /\ sessions'[sid].lastError = err.text
           /\ sessions'[sid].errorCode =
                  (IF err.code # Null THEN err.code
                   ELSE IF opts.code # Null THEN opts.code
                   ELSE "UNKNOWN_ERROR")
           /\ sessions'[sid].retryCount =
                  (IF opts.retryCount = Undefined
                   THEN sessions[sid].retryCount ELSE opts.retryCount)
           /\ \A d \in last'.sent :
                  d.msg.data.retryable = (IF opts.retryable = "false" THEN "false" ELSE "true")]_vars

----------------------------------------------------------------------------
(* The session store *)

\* C14: writing to any field of a snapshot returned by get, at any depth,
\* never changes the stored session; a get returns the stored values, so a
\* later get returns the original ones after any interleaving of reads and
\* writes to snapshots.
C14_SnapshotIsIsolated ==
    [][/\ last'.op = "mutate" => sessions' = sessions
       /\ (last'.op = "get" /\ last'.code = "session")
             => last'.ret.snapshot = sessions[last'.sid]]_vars

\* a snapshot whose nested feedback was written to, the stored feedback intact
W_C14_NestedWrite ==
    /\ last.op = "mutate" /\ last.args.path = "feedback.score"
    /\ last.ret.snapshot.feedback \notin Feedbacks
    /\ Live(sessions, now, last.sid)
    /\ sessions[last.sid].feedback \in Feedbacks

\* C15: the sessionId field of every stored session equals the key it is
\* stored under, whatever initial data create was given and whatever updates
\* carried a sessionId.
C15_SessionIdIsTheKey ==
    \A k \in DOMAIN sessions : sessions[k].sessionId = k

\* an update carrying a sessionId was accepted
W_C15_UpdateCarriedSessionId ==
    /\ last.op = "update" /\ last.code = "true"
    /\ "sessionId" \in DOMAIN last.args.updates
    /\ last.args.updates.sessionId # last.sid

\* C16: update, updateStatus, extend and delete called with an invalid id or
\* the id of no stored session return false and leave every stored session as
\* it was; get returns null for the same ids.
C16_BadIdIsRefused ==
    [][(/\ last'.op \in {"update", "updateStatus", "extend", "delete", "get"}
        /\ ~ValidId(last'.sid) \/ last'.sid \notin DOMAIN sessions)
       => (/\ last'.code = IF last'.op = "get" THEN "null" ELSE "false"
           /\ sessions' = sessions)]_vars

\* extend called with an id that is no string while sessions are stored
W_C16_ExtendWithNonString ==
    /\ last.op = "extend" /\ last.sid = NumId /\ last.code = "false"
    /\ DOMAIN sessions = Ids

\* C17: the sweep removes exactly the sessions whose expiresAt has passed,
\* returns how many it removed and leaves the others present and unchanged;
\* right after it the store holds no expired session.
C17_SweepRemovesExactlyExpired ==
    [][last'.op = "cleanup" =>
        /\ DOMAIN sessions' = {k \in DOMAIN sessions : ~(now > sessions[k].expiresAt)}
        /\ \A k \in DOMAIN sessions' : sessions'[k] = sessions[k]
        /\ last'.ret.count = Cardinality(DOMAIN sessions) - Cardinality(DOMAIN sessions')
        /\ \A k \in DOMAIN sessions' : ~(now' > sessions'[k].expiresAt)]_vars

\* a sweep that removed one session and kept the other, which expires now
W_C17_OneSweptOneKept ==
    /\ last.op = "cleanup" /\ last.ret.count = 1
    /\ \E k \in DOMAIN sessions : sessions[k].expiresAt = now

----------------------------------------------------------------------------
(* Connections *)

C19_UnknownSessionIs404 ==
    [][(/\ last'.op = "subscribe"
        /\ ValidId(last'.sid)
        /\ ~Live(sessions, now, last'.sid)) =>
        /\ last'.ret.status = 404
        /\ last'.code = "SESSION_NOT_FOUND"
        /\ last'.ret.stream # "open"
        /\ last'.sent = {}
        /\ conns' = conns
        /\ sessions' = sessions]_vars

\* C20: a session with a registered subscriber connection does not expire
\* mid-stream: while the connection is registered the stored session is not
\* past its expiresAt, so get and exists see it, and the sweep does not
\* remove it.
C20_WatchedSessionStaysLive ==
    /\ [](\A sid \in DOMAIN sessions :
            ChannelsOf(conns, sid) # {} => ~IsExpired(sessions[sid], now))
    /\ [][last'.op = "cleanup" =>
            \A sid \in DOMAIN sessions :
                ChannelsOf(conns, sid) # {} => sid \in DOMAIN sessions']_vars

----------------------------------------------------------------------------
(* SpecAnalysis: analyses running in the background of one session, while a
   client subscribes and asks for retries.  What the event loop has queued it
   runs: a settled analysis is resumed. *)

AnalysisIds == {"s1", NullId, UnknownId}

NextAnalysis ==
    \/ CreateSession("s1")
    \/ \E t \in TaskIds, sid \in AnalysisIds, hasText, configured \in BOOLEAN :
          AdvancedAnalyze(t, sid, hasText, configured)
    \/ \E t \in TaskIds, ok \in BOOLEAN : GenerateContentStream(t, ok)
    \/ \E t \in TaskIds, chunk \in FragmentTexts : StreamFragment(t, chunk)
    \/ \E t \in TaskIds : StreamFails(t)
    \/ \E t \in TaskIds, valid \in BOOLEAN : StreamEnds(t, valid)
    \/ \E t \in TaskIds : PerformAdvancedAnalysisResumes(t)
    \/ \E sid \in AnalysisIds : RetryRoute(sid) /\ UNCHANGED accepted
    \/ Subscribe("s1", "c1", TRUE, FALSE)
    \/ ClientDisconnect("s1", "c1")

SpecAnalysis ==
    /\ Init
    /\ [][NextAnalysis]_vars
    /\ \A t \in TaskIds : WF_vars(PerformAdvancedAnalysisResumes(t))

----------------------------------------------------------------------------
(* SpecBackground: two background analyses of one session and nothing else.
   What the event loop has queued it runs: a settled analysis is resumed. *)

NextBackground ==
    \/ CreateSession("s1")
    \/ \E t \in TaskIds, sid \in AnalysisIds, hasText, configured \in BOOLEAN :
          AdvancedAnalyze(t, sid, hasText, configured)
    \/ \E t \in TaskIds, ok \in BOOLEAN : GenerateContentStream(t, ok)
    \/ \E t \in TaskIds : StreamFragment(t, "a")
    \/ \E t \in TaskIds : StreamFails(t)
    \/ \E t \in TaskIds, valid \in BOOLEAN : StreamEnds(t, valid)
    \/ \E t \in TaskIds : PerformAdvancedAnalysisResumes(t)

SpecBackground ==
    /\ Init
    /\ [][NextBackground]_vars
    /\ \A t \in TaskIds : WF_vars(PerformAdvancedAnalysisResumes(t))

----------------------------------------------------------------------------
(* SpecGemini: the AI client called directly, with and without a callback *)

NextGemini ==
    \/ \E t \in TaskIds, method \in GeminiMethods, onChunk \in OnChunkArgs :
          AnalyzeResume(t, method, onChunk)
    \/ \E t \in TaskIds, ok \in BOOLEAN : GenerateContentStream(t, ok)
    \/ \E t \in TaskIds, chunk \in FragmentTexts : StreamFragment(t, chunk)
    \/ \E t \in TaskIds : StreamFails(t)
    \/ \E t \in TaskIds, valid \in BOOLEAN : StreamEnds(t, valid)

SpecGemini == Init /\ [][NextGemini]_vars

----------------------------------------------------------------------------
(* SpecShutdown: subscribers come and go until the process is told to stop.
   The forced-exit timer, once armed, fires. *)

NextShutdown ==
    \/ \E sid \in Ids : Running /\ CreateSession(sid)
    \/ \E sid \in Ids, c \in Channels :
          proc.server = "listening" /\ Subscribe(sid, c, TRUE, FALSE)
    \/ \E sid \in Ids, c \in Channels : Running /\ ClientDisconnect(sid, c)
    \/ \E c \in Channels : Running /\ ChannelBreak(c)
    \/ \E sid \in Ids : Running /\ BroadcastAnalysisStarted(sid) /\ UNCHANGED bg
    \/ \E signal \in Signals : GracefulShutdown(signal)
    \/ ServerCloseCallback
    \/ ForcedExit

SpecShutdown == Init /\ [][NextShutdown]_vars /\ WF_vars(ForcedExit)

----------------------------------------------------------------------------
(* SpecFiles: the uploads directory, files written, aged and cleaned up *)

NextFiles ==
    \/ \E n \in FileNames : WriteFile(n)
    \/ \E n \in FileNames, t \in 0..MaxTime : t <= now /\ Utimes(n, t)
    \/ \E n \in FileNames : LockFile(n)
    \/ \E n \in FileNames : DeleteFile(n)
    \/ \E exists \in BOOLEAN : SetUploadsDir(exists)
    \/ CleanupOldFiles
    \/ Tick

SpecFiles == Init /\ [][NextFiles]_vars

----------------------------------------------------------------------------
(* Teardown, replay, and what the lifecycle leaves behind *)

\* C21: when a session is torn down (deleted, cleared with all others, or
\* removed by the expiry sweep) every connection registered for it is
\* destroyed: the registry then holds no channel for its id.
C21_TeardownDestroysConnections ==
    [][last'.op \in {"delete", "clearAll", "cleanup"} =>
        \A sid \in (DOMAIN sessions) \ (DOMAIN sessions') :
            ChannelsOf(conns', sid) = {}]_vars

\* C26: the snapshot a subscription replays is written to the newly connected
\* channel only; channels already subscribed to the session receive nothing
\* because another client subscribed.
C26_ReplayToNewChannelOnly ==
    (last.op = "subscribe" /\ last.code = "connected") =>
        \A d \in last.sent : d.chan = last.chan

\* C29: over a session's lifetime retryCount never decreases, whatever error
\* event, retry request or other lifecycle call is made.
C29_RetryCountNeverDecreases ==
    [][\A sid \in (DOMAIN sessions) \cap (DOMAIN sessions') :
        sessions'[sid].retryCount >= sessions[sid].retryCount]_vars

\* C30: a stored session whose status is completed has no streamingContent.
C30_CompletedHasNoStreamingContent ==
    \A sid \in DOMAIN sessions :
        sessions[sid].status = "completed" => sessions[sid].streamingContent = NullText

----------------------------------------------------------------------------
(* Retry, shutdown, the AI client and the background analysis *)

\* C22: after a retry request is accepted the session, status retrying, goes
\* through the pipeline again and eventually is completed or error; it does
\* not stay retrying forever.
C22_RetryingReachesAnOutcome ==
    \A sid \in Ids :
        (Live(sessions, now, sid) /\ sessions[sid].status = "retrying")
            ~> (Live(sessions, now, sid) /\
                sessions[sid].status \in {"completed", "error"})

\* C23: handling a termination signal, the process runs the registry's
\* shutdown before it closes the HTTP server; when the shutdown has run no
\* channel is registered for any session; the process then eventually exits,
\* at the latest when the forced-exit timer fires.
C23_ShutdownClosesChannelsThenExits ==
    /\ [](\A i \in DOMAIN proc.calls :
            proc.calls[i] = "server.close" =>
                i > 1 /\ proc.calls[i - 1] = "sseManager.shutdown")
    /\ [](proc.server # "listening" =>
            \E i \in DOMAIN proc.calls : proc.calls[i] = "sseManager.shutdown")
    /\ [][last'.op = "shutdown" =>
            DOMAIN conns' = {} /\ Registered(conns') = {}]_vars
    /\ (proc.timer = "armed") ~> (proc.exit # "running")

\* two channels were closed by the shutdown, the server did not close in time
\* and the timer ended the process
W_C23_ForcedExitAfterClosingTwo ==
    /\ proc.exit = "exit(1)"
    /\ proc.closed = 2
    /\ DOMAIN sessions # {}

\* C24: analyzeResumeStreaming and analyzeResumeAdvanced call onChunk exactly
\* once for each fragment the model stream yields, in stream order and with
\* the fragment's text; every call is made before the returned promise
\* settles; when the upstream call fails the promise rejects and carries no
\* feedback.
C24_OnChunkOncePerFragmentBeforeSettling ==
    /\ [](\A t \in TaskIds :
            /\ tasks[t].onChunk = "function" => tasks[t].calls = tasks[t].produced
            /\ tasks[t].promise = "rejected" => tasks[t].result = Null
            /\ tasks[t].promise = "fulfilled" => tasks[t].result # Null)
    /\ [][\A t \in TaskIds :
            /\ tasks[t].promise \in {"fulfilled", "rejected"} =>
                  /\ tasks'[t].calls = tasks[t].calls
                  /\ tasks'[t].promise = tasks[t].promise
                  /\ tasks'[t].result = tasks[t].result
            /\ (last'.code = "rejected" /\ tasks'[t] # tasks[t]) =>
                  tasks'[t].promise = "rejected"]_vars

\* one call failed after its first fragment, the other was fulfilled after two
W_C24_OneRejectedOneFulfilled ==
    \E t, u \in TaskIds :
        /\ tasks[t].promise = "rejected" /\ tasks[t].calls = <<"a">>
        /\ tasks[u].promise = "fulfilled" /\ tasks[u].calls = <<"b", "a">>
        /\ tasks[u].kind = "analyzeResumeAdvanced"

Terminal == {"analysis.completed", "error.occurred"}

\* C25: a background advanced analysis emits analysis.started, then zero or
\* more analysis.streaming, then exactly one terminal event, analysis.completed
\* when the AI call resolved and error.occurred when it rejected, never both
\* and never neither; the HTTP response to the request precedes the first
\* event and the outcome does not change it.
C25_BackgroundAnalysisEventOrder ==
    /\ [](\A t \in TaskIds : tasks[t].kind = "advanced" =>
            LET e == tasks[t].events
            IN /\ Len(e) >= 2 /\ e[1] = "response" /\ e[2] = "analysis.started"
               /\ tasks[t].response = 200
               /\ \A i \in 3..Len(e) :
                     \/ e[i] = "analysis.streaming"
                     \/ i = Len(e) /\ e[i] \in Terminal
               /\ e[Len(e)] \in Terminal <=> tasks[t].phase = "done"
               /\ tasks[t].phase = "done" =>
                     e[Len(e)] = IF tasks[t].promise = "fulfilled"
                                 THEN "analysis.completed" ELSE "error.occurred")
    /\ [][\A t \in TaskIds : tasks[t].kind = "advanced" =>
            /\ tasks'[t].response = tasks[t].response
            /\ Len(tasks'[t].events) >= Len(tasks[t].events)
            /\ SubSeq(tasks'[t].events, 1, Len(tasks[t].events)) = tasks[t].events]_vars
    /\ \A t \in TaskIds :
          (tasks[t].kind = "advanced" /\ tasks[t].promise \in {"fulfilled", "rejected"})
              ~> (tasks[t].phase = "done")

\* one analysis failed after a fragment, the other completed without any
W_C25_OneFailedOneCompleted ==
    /\ tasks["t1"].events =
          <<"response", "analysis.started", "analysis.streaming", "error.occurred">>
    /\ tasks["t2"].events = <<"response", "analysis.started", "analysis.completed">>

\* C27: whatever the interleaving of chunk callbacks, lifecycle calls and HTTP
\* handlers, analysisStreaming loses no chunk: while the session is live its
\* streamingContent is the chunks delivered since the last completion, each
\* once and in delivery order, also when two analyses stream into it.
C27_NoChunkLost ==
    \A sid \in Ids :
        Live(sessions, now, sid) =>
            OrEmpty(sessions[sid].streamingContent) = delivered[sid]

\* two analyses of the same session, one fragment each, a retry in between
W_C27_TwoAnalysesInterleaved ==
    /\ tasks["t1"].sid = "s1" /\ tasks["t2"].sid = "s1"
    /\ tasks["t1"].produced = <<"a">> /\ tasks["t2"].produced = <<"b">>
    /\ tasks["t1"].phase = "done" /\ tasks["t1"].promise = "rejected"
    /\ Live(sessions, now, "s1")
    /\ sessions["s1"].retryCount = 1
    /\ sessions["s1"].streamingContent = <<"a", "b">>

\* C28: cleanupOldFiles deletes exactly the files of the uploads directory
\* that are not dot-prefixed and older than maxFileAge, never a dot-prefixed
\* or newer one, and returns the number of files it deleted, 0 when the
\* directory does not exist.
C28_CleanupDeletesExactlyOldFiles ==
    [][last'.op = "cleanupOldFiles" =>
        LET old == {n \in DOMAIN uploads.files :
                        Head(n) # "." /\ now - uploads.files[n].mtime > MaxFileAge}
            gone == (DOMAIN uploads.files) \ (DOMAIN uploads'.files)
        IN /\ gone = old
           /\ \A n \in DOMAIN uploads'.files : uploads'.files[n] = uploads.files[n]
           /\ last'.ret.count = Cardinality(gone)
           /\ ~uploads.exists => last'.ret.count = 0]_vars

====
